---- MODULE Spec2Model ----
(***************************************************************************)
(* A model of the touch-gesture decoder of src/client.py (SessionRecorder):*)
(* parse_line turns getevent lines into EventData, process_event keeps the *)
(* single TouchState, detect_gesture classifies a finished session and     *)
(* on_touch_end records the resulting action.                              *)
(*                                                                         *)
(* Conventions.                                                            *)
(*  - A line is a sequence of one-character strings.                       *)
(*  - A Python Optional is a sequence: None is << >>, a present value v is *)
(*    <<v>>.                                                               *)
(*  - The clock (time.time()) is the variable now, counted in ticks of     *)
(*    0.05 s, and is always positive as the epoch clock is.                *)
(*  - Python's integers are unbounded and TLC's have 32 bits, so an        *)
(*    EventData.value and tracking_id, which can be 0xffffffff, are kept   *)
(*    as two limbs: the integer n is <<n \div 65536, n % 65536>>.  Every   *)
(*    integer has one such pair, so equality of the pairs is equality of   *)
(*    the integers.                                                        *)
(***************************************************************************)
EXTENDS Integers, Sequences, FiniteSets, TLC

VARIABLES
    touch_state,        \* SessionRecorder.touch_state (TouchState)
    actions,            \* SessionRecorder.actions
    action_count,       \* SessionRecorder.action_count (= len(screenshot_widths))
    current_screenshot, \* TRUE iff SessionRecorder.current_screenshot is not None
    recording,          \* SessionRecorder.recording
    main_pc,            \* where the main thread is in run()
    monitor_pc,         \* where the gesture monitor thread is in its loop
    now,                \* the reading time.time() returns
    sess,               \* history: the contact since the most recent press
    opened,             \* history: on_touch_start called, no touch-end since
    script,             \* history: the events fed so far, while they follow
                        \* press, X, Y, X, Y, release from the fresh tracker
    last_line,          \* history: the line handled last, << >> before the
                        \* first (kept where one step is studied on its own)
    last_event,         \* history: what parse_line returned for last_line
    pending,            \* the action on_touch_end has built and not yet
                        \* appended, None outside (kept where the threads
                        \* are studied step by step)
    saved_for           \* history: saved_for[i + 1] is the action
                        \* screenshot_<i>.png was saved for (kept where the
                        \* threads are studied step by step)

vars == <<touch_state, actions, action_count, current_screenshot, recording,
          main_pc, monitor_pc, now, sess, opened, script, last_line,
          last_event, pending, saved_for>>

----------------------------------------------------------------------------
(* Bounds of the model *)

\* the last clock reading
MaxTime == 10
\* the ticks the clock advances by between two events
Quantum == 3
\* the gestures recorded before the stream is cut off
MaxGestures == 1

----------------------------------------------------------------------------
(* Python values *)

None == << >>
Some(v) == <<v>>

\* bool(v) of an Optional[int]: None and 0 are false
Truthy(o) == o # None /\ o[1] # 0

\* int(q) of the quotient n / d (d > 0): truncation toward zero
IntDiv(n, d) == IF n >= 0 THEN n \div d ELSE -((-n) \div d)

Abs(n) == IF n >= 0 THEN n ELSE -n

\* the Python integer n, and the TLC integer of one that fits
Num(n) == <<n \div 65536, n % 65536>>
Val(b) == b[1] * 65536 + b[2]

----------------------------------------------------------------------------
(* SessionRecorder.__init__: thresholds and event constants *)

\* click_max_duration = 0.3 s, in clock ticks of 0.05 s
click_max_duration == 6
click_max_distance == 100
swipe_min_distance == 200

EV_SYN == 0
EV_KEY == 1
EV_ABS == 3
ABS_MT_TRACKING_ID == 57
ABS_MT_POSITION_X == 53
ABS_MT_POSITION_Y == 54
BTN_TOUCH == 330

\* the thresholds of a recorder, as __init__ sets them
Thresholds ==
    [click_max_duration |-> click_max_duration,
     click_max_distance |-> click_max_distance,
     swipe_min_distance |-> swipe_min_distance]

TouchState == [x |-> 0, y |-> 0, tracking_id |-> Num(-1), touching |-> FALSE,
               start_x |-> None, start_y |-> None, start_time |-> None]

----------------------------------------------------------------------------
(* parse_line *)

HexDigits == <<"0", "1", "2", "3", "4", "5", "6", "7", "8", "9",
               "a", "b", "c", "d", "e", "f">>

IsHex(c) == \E i \in 1..16 : HexDigits[i] = c

HexDigitVal(c) == (CHOOSE i \in 1..16 : HexDigits[i] = c) - 1

\* the characters \w matches
WordChars == {"0", "1", "2", "3", "4", "5", "6", "7", "8", "9", "_",
              "a", "b", "c", "d", "e", "f", "g", "h", "i", "j", "k", "l", "m",
              "n", "o", "p", "q", "r", "s", "t", "u", "v", "w", "x", "y", "z",
              "A", "B", "C", "D", "E", "F", "G", "H", "I", "J", "K", "L", "M",
              "N", "O", "P", "Q", "R", "S", "T", "U", "V", "W", "X", "Y", "Z"}

Whitespace == {" ", "\t", "\n", "\r"}

\* int(s, 16) of at most 7 digits
RECURSIVE HexInt(_)
HexInt(s) ==
    IF s = << >> THEN 0
    ELSE HexInt(SubSeq(s, 1, Len(s) - 1)) * 16 + HexDigitVal(s[Len(s)])

\* int(s, 16) of 8 digits, in limbs
HexNum(s) == <<HexInt(SubSeq(s, 1, 4)), HexInt(SubSeq(s, 5, 8))>>

\* str.strip()
RECURSIVE LStrip(_)
LStrip(s) ==
    IF s # << >> /\ s[1] \in Whitespace THEN LStrip(Tail(s)) ELSE s

RECURSIVE RStrip(_)
RStrip(s) ==
    IF s # << >> /\ s[Len(s)] \in Whitespace
    THEN RStrip(SubSeq(s, 1, Len(s) - 1)) ELSE s

Strip(s) == RStrip(LStrip(s))

\* s has the literal lit at position p
HasAt(s, p, lit) ==
    /\ Len(s) >= p + Len(lit) - 1
    /\ \A i \in 1..Len(lit) : s[p + i - 1] = lit[i]

\* s has n hex digits at position p
HexAt(s, p, n) ==
    /\ Len(s) >= p + n - 1
    /\ \A i \in 0..(n - 1) : IsHex(s[p + i])

\* ([0-9a-f]{4}) ([0-9a-f]{4}) ([0-9a-f]{8}) matched at position p
FieldsAt(s, p) ==
    /\ HexAt(s, p, 4)
    /\ HasAt(s, p + 4, <<" ">>)
    /\ HexAt(s, p + 5, 4)
    /\ HasAt(s, p + 9, <<" ">>)
    /\ HexAt(s, p + 10, 8)

DevPrefix == <<"/", "d", "e", "v", "/", "i", "n", "p", "u", "t", "/">>

\* the length of the longest run of \w characters of s at position p
RECURSIVE WordRun(_, _)
WordRun(s, p) ==
    IF p <= Len(s) /\ s[p] \in WordChars THEN 1 + WordRun(s, p + 1) ELSE 0

\* re.match(pattern_with_device, line): \w+ is followed by ':', which is no
\* \w character, so the only candidate for the group is the longest run
MatchWithDevice(line) ==
    /\ HasAt(line, 1, DevPrefix)
    /\ WordRun(line, 12) >= 1
    /\ HasAt(line, 12 + WordRun(line, 12), <<":", " ">>)
    /\ FieldsAt(line, 14 + WordRun(line, 12))

EventData(device, type, code, value) ==
    [device |-> device, type |-> type, code |-> code, value |-> value]

\* an EventData with the type and the code fields taken for each other
EventAt_swapped(s, p, device) ==
    EventData(device,
              HexInt(SubSeq(s, p + 5, p + 8)),
              HexInt(SubSeq(s, p, p + 3)),
              HexNum(SubSeq(s, p + 10, p + 17)))

EventAt(s, p, device) ==
    EventData(device,
              HexInt(SubSeq(s, p, p + 3)),
              HexInt(SubSeq(s, p + 5, p + 8)),
              HexNum(SubSeq(s, p + 10, p + 17)))

DefaultDevice == <<"e", "v", "e", "n", "t", "1">>

\* Optional[EventData]
parse_line(line) ==
    IF MatchWithDevice(line)
    THEN Some(EventAt(line, 14 + WordRun(line, 12),
                      SubSeq(line, 12, 11 + WordRun(line, 12))))
    ELSE IF FieldsAt(Strip(line), 1)
         THEN Some(EventAt(Strip(line), 1, DefaultDevice))
         ELSE None

----------------------------------------------------------------------------
(* scale_coordinate *)

MAX_RAW_X == 1343
MAX_RAW_Y == 2991
SCREEN_WIDTH == 1008
SCREEN_HEIGHT == 2244

\* a scale_coordinate that leaves the raw samples as they are
scale_coordinate_raw(x, y) == <<x, y>>

\* a scale_coordinate that rounds to the nearest pixel
scale_coordinate_round(x, y) ==
    <<IntDiv(2 * x * SCREEN_WIDTH + MAX_RAW_X, 2 * MAX_RAW_X),
      IntDiv(2 * y * SCREEN_HEIGHT + MAX_RAW_Y, 2 * MAX_RAW_Y)>>

scale_coordinate(x, y) ==
    <<IntDiv(x * SCREEN_WIDTH, MAX_RAW_X), IntDiv(y * SCREEN_HEIGHT, MAX_RAW_Y)>>

----------------------------------------------------------------------------
(* detect_gesture *)

NoGesture == "NONE"

\* a detect_gesture that takes the sign of dx the other way round
detect_gesture_mirrored(ts, t, th) ==
    IF ts.start_x = None \/ ts.start_y = None \/ ts.start_time = None
    THEN NoGesture
    ELSE LET duration == t - ts.start_time[1]
             dx == ts.x - ts.start_x[1]
             dy == ts.y - ts.start_y[1]
             distance2 == dx * dx + dy * dy
         IN  IF /\ duration <= th.click_max_duration
                /\ distance2 <= th.click_max_distance * th.click_max_distance
             THEN "CLICK"
             ELSE IF distance2 >= th.swipe_min_distance * th.swipe_min_distance
                  THEN IF Abs(dx) > Abs(dy)
                       THEN (IF dx > 0 THEN "SWIPE_LEFT" ELSE "SWIPE_RIGHT")
                       ELSE (IF dy > 0 THEN "SWIPE_UP" ELSE "SWIPE_DOWN")
                  ELSE NoGesture

\* a detect_gesture that looks at the swipe rule before the click rule
detect_gesture_swipe_first(ts, t, th) ==
    IF ts.start_x = None \/ ts.start_y = None \/ ts.start_time = None
    THEN NoGesture
    ELSE LET duration == t - ts.start_time[1]
             dx == ts.x - ts.start_x[1]
             dy == ts.y - ts.start_y[1]
             distance2 == dx * dx + dy * dy
         IN  IF distance2 >= th.swipe_min_distance * th.swipe_min_distance
             THEN IF Abs(dx) > Abs(dy)
                  THEN (IF dx > 0 THEN "SWIPE_RIGHT" ELSE "SWIPE_LEFT")
                  ELSE (IF dy > 0 THEN "SWIPE_UP" ELSE "SWIPE_DOWN")
             ELSE IF /\ duration <= th.click_max_duration
                     /\ distance2
                          <= th.click_max_distance * th.click_max_distance
                  THEN "CLICK"
                  ELSE NoGesture

\* ts is the TouchState, t the reading of time.time() and th the thresholds
\* of self.  dx and dy are integers, so (dx**2 + dy**2) ** 0.5 <= m is
\* dx^2 + dy^2 <= m^2, and the same for >=.
\* a detect_gesture that takes a start field of 0 for an unset one
detect_gesture_truthy(ts, t, th) ==
    IF ~Truthy(ts.start_x) \/ ~Truthy(ts.start_y) \/ ~Truthy(ts.start_time)
    THEN NoGesture
    ELSE LET duration == t - ts.start_time[1]
             dx == ts.x - ts.start_x[1]
             dy == ts.y - ts.start_y[1]
             distance2 == dx * dx + dy * dy
         IN  IF /\ duration <= th.click_max_duration
                /\ distance2 <= th.click_max_distance * th.click_max_distance
             THEN "CLICK"
             ELSE IF distance2 >= th.swipe_min_distance * th.swipe_min_distance
                  THEN IF Abs(dx) > Abs(dy)
                       THEN (IF dx > 0 THEN "SWIPE_RIGHT" ELSE "SWIPE_LEFT")
                       ELSE (IF dy > 0 THEN "SWIPE_UP" ELSE "SWIPE_DOWN")
                  ELSE NoGesture

detect_gesture(ts, t, th) ==
    IF ts.start_x = None \/ ts.start_y = None \/ ts.start_time = None
    THEN NoGesture
    ELSE LET duration == t - ts.start_time[1]
             dx == ts.x - ts.start_x[1]
             dy == ts.y - ts.start_y[1]
             distance2 == dx * dx + dy * dy
         IN  IF /\ duration <= th.click_max_duration
                /\ distance2 <= th.click_max_distance * th.click_max_distance
             THEN "CLICK"
             ELSE IF distance2 >= th.swipe_min_distance * th.swipe_min_distance
                  THEN IF Abs(dx) > Abs(dy)
                       THEN (IF dx > 0 THEN "SWIPE_RIGHT" ELSE "SWIPE_LEFT")
                       ELSE (IF dy > 0 THEN "SWIPE_UP" ELSE "SWIPE_DOWN")
                  ELSE NoGesture

----------------------------------------------------------------------------
(* on_touch_end and what it calls.  r is the part of the recorder a handler  *)
(* works on: [touch_state, actions, action_count, calls], where calls lists  *)
(* the callbacks the handler has run.                                        *)

\* save_action_screenshot: the new action_count (screenshot_<count>.png is
\* written and the counter moves only if a screenshot is there; the image
\* library's save and draw calls are taken to return)
save_action_screenshot(count, shot) ==
    IF shot THEN count + 1 ELSE count

ClickAction(ts) ==
    [action_type |-> "click", x |-> ts.x, y |-> ts.y]

\* gesture.name.replace("SWIPE_", "").lower()
Direction(gesture) ==
    CASE gesture = "SWIPE_LEFT" -> "left"
      [] gesture = "SWIPE_RIGHT" -> "right"
      [] gesture = "SWIPE_UP" -> "up"
      [] gesture = "SWIPE_DOWN" -> "down"

SwipeAction(ts, gesture) ==
    [action_type |-> "swipe",
     start_x |-> ts.start_x[1], start_y |-> ts.start_y[1],
     end_x |-> ts.x, end_y |-> ts.y,
     direction |-> Direction(gesture)]

\* not all([start_x, start_y, start_time])
TouchEndReturnsEarly(ts) ==
    ~(Truthy(ts.start_x) /\ Truthy(ts.start_y) /\ Truthy(ts.start_time))

\* a touch-end evaluation that saves the screenshot of its gesture and
\* leaves the action out of the log
on_touch_end_unlogged(r, t, shot) ==
    LET ts == r.touch_state
        called == [r EXCEPT !.calls = Append(@, "on_touch_end")]
    IN  IF TouchEndReturnsEarly(ts)
        THEN called
        ELSE LET gesture == detect_gesture(ts, t, Thresholds)
                 reset == [ts EXCEPT !.start_x = None, !.start_y = None,
                                     !.start_time = None]
             IN  IF gesture # NoGesture
                 THEN [called EXCEPT
                         !.action_count = save_action_screenshot(@, shot),
                         !.touch_state = reset]
                 ELSE [called EXCEPT !.touch_state = reset]

\* a touch-end evaluation whose reset takes the coordinates along
on_touch_end_home(r, t, shot) ==
    LET ts == r.touch_state
        called == [r EXCEPT !.calls = Append(@, "on_touch_end")]
    IN  IF TouchEndReturnsEarly(ts)
        THEN called
        ELSE LET gesture == detect_gesture(ts, t, Thresholds)
                 action == IF gesture = "CLICK" THEN ClickAction(ts)
                           ELSE SwipeAction(ts, gesture)
                 reset == [ts EXCEPT !.start_x = None, !.start_y = None,
                                     !.start_time = None, !.x = 0, !.y = 0]
             IN  IF gesture # NoGesture
                 THEN [called EXCEPT
                         !.action_count = save_action_screenshot(@, shot),
                         !.actions = Append(@, action),
                         !.touch_state = reset]
                 ELSE [called EXCEPT !.touch_state = reset]

on_touch_end(r, t, shot) ==
    LET ts == r.touch_state
        called == [r EXCEPT !.calls = Append(@, "on_touch_end")]
    IN  IF TouchEndReturnsEarly(ts)
        THEN called
        ELSE LET gesture == detect_gesture(ts, t, Thresholds)
                 action == IF gesture = "CLICK" THEN ClickAction(ts)
                           ELSE SwipeAction(ts, gesture)
                 reset == [ts EXCEPT !.start_x = None, !.start_y = None,
                                     !.start_time = None]
             IN  IF gesture # NoGesture
                 THEN [called EXCEPT
                         !.action_count = save_action_screenshot(@, shot),
                         !.actions = Append(@, action),
                         !.touch_state = reset]
                 ELSE [called EXCEPT !.touch_state = reset]

\* on_touch_start: pass
on_touch_start(r) ==
    [r EXCEPT !.calls = Append(@, "on_touch_start")]

----------------------------------------------------------------------------
(* process_event *)

\* a process_event whose start_x follows every X sample of the contact
process_event_follow(r, event, t, shot) ==
    LET ts == r.touch_state IN
    IF event.type = EV_KEY /\ event.code = BTN_TOUCH
    THEN LET r1 == [r EXCEPT !.touch_state.touching = (event.value # Num(0))]
         IN  IF event.value # Num(0)
             THEN [r1 EXCEPT !.touch_state.start_time = Some(t)]
             ELSE on_touch_end(r1, t, shot)
    ELSE IF event.type = EV_ABS
    THEN IF event.code = ABS_MT_POSITION_X
         THEN LET scaled_x == scale_coordinate(Val(event.value), ts.y)[1]
                  r1 == [r EXCEPT !.touch_state.x = scaled_x]
              IN  IF ts.touching
                  THEN [r1 EXCEPT !.touch_state.start_x = Some(scaled_x)]
                  ELSE r1
         ELSE IF event.code = ABS_MT_POSITION_Y
         THEN LET scaled_y == scale_coordinate(ts.x, Val(event.value))[2]
                  r1 == [r EXCEPT !.touch_state.y = scaled_y]
              IN  IF ts.start_y = None /\ ts.touching
                  THEN on_touch_start(
                         [r1 EXCEPT !.touch_state.start_y = Some(scaled_y)])
                  ELSE r1
         ELSE IF event.code = ABS_MT_TRACKING_ID
         THEN LET r1 == IF event.value = Num(-1) THEN on_touch_end(r, t, shot)
                        ELSE r
              IN  [r1 EXCEPT !.touch_state.tracking_id = event.value]
         ELSE r
    ELSE r

\* a process_event whose press keeps a start_time that is set
process_event_first_press(r, event, t, shot) ==
    LET ts == r.touch_state IN
    IF event.type = EV_KEY /\ event.code = BTN_TOUCH
    THEN LET r1 == [r EXCEPT !.touch_state.touching = (event.value # Num(0))]
         IN  IF event.value # Num(0)
             THEN IF ts.start_time = None
                  THEN [r1 EXCEPT !.touch_state.start_time = Some(t)]
                  ELSE r1
             ELSE on_touch_end(r1, t, shot)
    ELSE IF event.type = EV_ABS
    THEN IF event.code = ABS_MT_POSITION_X
         THEN LET scaled_x == scale_coordinate(Val(event.value), ts.y)[1]
                  r1 == [r EXCEPT !.touch_state.x = scaled_x]
              IN  IF ts.start_x = None /\ ts.touching
                  THEN [r1 EXCEPT !.touch_state.start_x = Some(scaled_x)]
                  ELSE r1
         ELSE IF event.code = ABS_MT_POSITION_Y
         THEN LET scaled_y == scale_coordinate(ts.x, Val(event.value))[2]
                  r1 == [r EXCEPT !.touch_state.y = scaled_y]
              IN  IF ts.start_y = None /\ ts.touching
                  THEN on_touch_start(
                         [r1 EXCEPT !.touch_state.start_y = Some(scaled_y)])
                  ELSE r1
         ELSE IF event.code = ABS_MT_TRACKING_ID
         THEN LET r1 == IF event.value = Num(-1) THEN on_touch_end(r, t, shot)
                        ELSE r
              IN  [r1 EXCEPT !.touch_state.tracking_id = event.value]
         ELSE r
    ELSE r

process_event(r, event, t, shot) ==
    LET ts == r.touch_state IN
    IF event.type = EV_KEY /\ event.code = BTN_TOUCH
    THEN LET r1 == [r EXCEPT !.touch_state.touching = (event.value # Num(0))]
         IN  IF event.value # Num(0)
             THEN [r1 EXCEPT !.touch_state.start_time = Some(t)]
             ELSE on_touch_end(r1, t, shot)
    ELSE IF event.type = EV_ABS
    THEN IF event.code = ABS_MT_POSITION_X
         THEN LET scaled_x == scale_coordinate(Val(event.value), ts.y)[1]
                  r1 == [r EXCEPT !.touch_state.x = scaled_x]
              IN  IF ts.start_x = None /\ ts.touching
                  THEN [r1 EXCEPT !.touch_state.start_x = Some(scaled_x)]
                  ELSE r1
         ELSE IF event.code = ABS_MT_POSITION_Y
         THEN LET scaled_y == scale_coordinate(ts.x, Val(event.value))[2]
                  r1 == [r EXCEPT !.touch_state.y = scaled_y]
              IN  IF ts.start_y = None /\ ts.touching
                  THEN on_touch_start(
                         [r1 EXCEPT !.touch_state.start_y = Some(scaled_y)])
                  ELSE r1
         ELSE IF event.code = ABS_MT_TRACKING_ID
         THEN LET r1 == IF event.value = Num(-1) THEN on_touch_end(r, t, shot)
                        ELSE r
              IN  [r1 EXCEPT !.touch_state.tracking_id = event.value]
         ELSE r
    ELSE r

----------------------------------------------------------------------------
(* The lines the event reader delivers (getevent output, as readline()     *)
(* returns it).  The raw X samples 0, 100, 400 scale to 0, 75, 300 and the *)
(* raw Y sample 200 to 150.                                                *)

LinePress ==
    <<"0", "0", "0", "1", " ", "0", "1", "4", "a", " ", "0", "0", "0", "0", "0", "0", "0", "1", "\n">>
\* a BTN_TOUCH event of value 2
LinePress2 ==
    <<"0", "0", "0", "1", " ", "0", "1", "4", "a", " ", "0", "0", "0", "0", "0", "0", "0", "2", "\n">>
LineRelease ==
    <<"0", "0", "0", "1", " ", "0", "1", "4", "a", " ", "0", "0", "0", "0", "0", "0", "0", "0", "\n">>
LineReleaseDev ==
    <<"/", "d", "e", "v", "/", "i", "n", "p", "u", "t", "/", "e", "v", "e", "n", "t", "1", ":", " ", "0", "0", "0", "1", " ", "0", "1", "4", "a", " ", "0", "0", "0", "0", "0", "0", "0", "0", "\n">>
LineX0 ==
    <<"0", "0", "0", "3", " ", "0", "0", "3", "5", " ", "0", "0", "0", "0", "0", "0", "0", "0", "\n">>
LineX100 ==
    <<"0", "0", "0", "3", " ", "0", "0", "3", "5", " ", "0", "0", "0", "0", "0", "0", "6", "4", "\n">>
LineX400 ==
    <<"0", "0", "0", "3", " ", "0", "0", "3", "5", " ", "0", "0", "0", "0", "0", "1", "9", "0", "\n">>
LineY200 ==
    <<"0", "0", "0", "3", " ", "0", "0", "3", "6", " ", "0", "0", "0", "0", "0", "0", "c", "8", "\n">>
LineTrackEnd ==
    <<"0", "0", "0", "3", " ", "0", "0", "3", "9", " ", "f", "f", "f", "f", "f", "f", "f", "f", "\n">>
LineSyn ==
    <<"0", "0", "0", "0", " ", "0", "0", "0", "0", " ", "0", "0", "0", "0", "0", "0", "0", "0", "\n">>
LineGarbage ==
    <<"g", "a", "r", "b", "a", "g", "e", "\n">>
\* an X sample whose value field has an upper-case digit
LineUpperCase ==
    <<"0", "0", "0", "3", " ", "0", "0", "3", "5", " ", "0", "0", "0", "0", "0", "1", "A", "5", "\n">>

Lines == {LinePress, LinePress2, LineRelease, LineReleaseDev, LineX0, LineX100, LineX400,
          LineY200, LineTrackEnd, LineSyn, LineGarbage, LineUpperCase}

\* parse_line of every line of the stream
Parsed == [line \in Lines |-> parse_line(line)]

----------------------------------------------------------------------------
(* What an event is, by its type and code alone *)

IsTouchKey(event) == event.type = EV_KEY /\ event.code = BTN_TOUCH
IsPress(event) == IsTouchKey(event) /\ event.value # Num(0)
IsRelease(event) == IsTouchKey(event) /\ event.value = Num(0)
IsX(event) == event.type = EV_ABS /\ event.code = ABS_MT_POSITION_X
IsY(event) == event.type = EV_ABS /\ event.code = ABS_MT_POSITION_Y
IsTrackingId(event) == event.type = EV_ABS /\ event.code = ABS_MT_TRACKING_ID

----------------------------------------------------------------------------
(* History variables *)

NoContact == [down |-> FALSE, press_time |-> None,
              first_x |-> None, first_y |-> None]

\* the contact after the line's event: a press opens it at the clock reading
\* t, a release ends it, and the first X and Y it reports are kept (ts1 is
\* the TouchState after the event, whose x and y are the values reported)
SessAfter(s, parsed, ts1, t) ==
    IF parsed = None THEN s
    ELSE LET event == parsed[1] IN
         IF IsPress(event) /\ ~s.down
         THEN [down |-> TRUE, press_time |-> Some(t),
               first_x |-> None, first_y |-> None]
         ELSE IF IsPress(event) THEN [s EXCEPT !.press_time = Some(t)]
         ELSE IF IsRelease(event) THEN [s EXCEPT !.down = FALSE]
         ELSE IF IsX(event) /\ s.down /\ s.first_x = None
         THEN [s EXCEPT !.first_x = Some(ts1.x)]
         ELSE IF IsY(event) /\ s.down /\ s.first_y = None
         THEN [s EXCEPT !.first_y = Some(ts1.y)]
         ELSE s

\* the session is open from on_touch_start to the next on_touch_end
OpenedAfter(o, calls) ==
    IF calls = << >> THEN o
    ELSE calls[Len(calls)] = "on_touch_start"

ScriptDead == [live |-> FALSE, seen |-> << >>]

\* the next event of press, X, Y, X, Y, release
ScriptExpects(n, event) ==
    CASE n = 0 -> IsPress(event)
      [] n \in {1, 3} -> IsX(event)
      [] n \in {2, 4} -> IsY(event)
      [] n = 5 -> IsRelease(event)
      [] OTHER -> FALSE

ScriptAfter(sc, parsed) ==
    IF sc.live /\ parsed # None /\ ScriptExpects(Len(sc.seen), parsed[1])
    THEN [sc EXCEPT !.seen = Append(@, parsed[1].value)]
    ELSE ScriptDead

----------------------------------------------------------------------------
(* The state machine *)

IsGestureAction(a) == a.action_type \in {"click", "swipe"}

GestureActions == SelectSeq(actions, IsGestureAction)

OpenAppAction == [action_type |-> "open_app"]

Init ==
    /\ saved_for = << >>
    /\ pending = None
    /\ touch_state = TouchState
    /\ actions = << >>
    /\ action_count = 0
    /\ current_screenshot = FALSE
    /\ recording = FALSE
    /\ main_pc = "start"
    /\ monitor_pc = "idle"
    /\ now = 1
    /\ sess = NoContact
    /\ opened = FALSE
    /\ script = [live |-> TRUE, seen |-> << >>]
    /\ last_line = << >>
    /\ last_event = None

\* a loop that goes on whatever recording is
while_true(rec) == "readline"

\* while self.recording: the loop asks for the next line or is over
while_recording(rec) == IF rec THEN "readline" ELSE "done"

\* run, from "Start recording" to the start of the gesture monitor thread:
\* the screenshot thread may have stored a screenshot by then, launch_app
\* records the open_app action unless the launch failed, and the monitor
\* thread enters its loop
run ==
    /\ main_pc = "start"
    /\ main_pc' = "interactive"
    /\ recording' = TRUE
    /\ monitor_pc' = while_recording(recording')
    /\ \E shot \in BOOLEAN, launched \in BOOLEAN :
         /\ current_screenshot' = shot
         /\ action_count' = IF launched
                            THEN save_action_screenshot(action_count, shot)
                            ELSE action_count
         /\ actions' = IF launched THEN Append(actions, OpenAppAction)
                       ELSE actions
    /\ UNCHANGED <<saved_for, pending>>
    /\ UNCHANGED <<touch_state, now, sess, opened, script, last_line,
                   last_event>>

\* screenshot_monitor: one capture that succeeded
screenshot_monitor ==
    /\ recording
    /\ ~current_screenshot
    /\ current_screenshot' = TRUE
    /\ UNCHANGED <<saved_for, pending>>
    /\ UNCHANGED <<touch_state, actions, action_count, recording, main_pc,
                   monitor_pc, now, sess, opened, script, last_line,
                   last_event>>

\* an iteration that forgets the contact at a line it cannot parse
AfterLine_reset(line) ==
    LET r == [touch_state |-> touch_state, actions |-> actions,
              action_count |-> action_count, calls |-> << >>]
    IN  IF Parsed[line] = None THEN [r EXCEPT !.touch_state = TouchState]
        ELSE process_event(r, Parsed[line][1], now, current_screenshot)

\* the recorder after one iteration of monitor_gestures on the line
AfterLine(line) ==
    LET r == [touch_state |-> touch_state, actions |-> actions,
              action_count |-> action_count, calls |-> << >>]
    IN  IF Parsed[line] = None THEN r
        ELSE process_event(r, Parsed[line][1], now, current_screenshot)

\* monitor_gestures: one iteration of the loop, from the line readline()
\* returns to the test of the next iteration
monitor_gestures(line) ==
    /\ monitor_pc = "readline"
    /\ Len(GestureActions) < MaxGestures
    /\ LET r1 == AfterLine(line) IN
         /\ touch_state' = r1.touch_state
         /\ actions' = r1.actions
         /\ action_count' = r1.action_count
         /\ sess' = SessAfter(sess, Parsed[line], r1.touch_state, now)
         /\ opened' = OpenedAfter(opened, r1.calls)
    /\ script' = ScriptAfter(script, Parsed[line])
    /\ monitor_pc' = while_recording(recording)
    /\ UNCHANGED <<saved_for, pending>>
    /\ UNCHANGED <<current_screenshot, recording, main_pc, now>>

\* monitor_gestures: readline() returns the empty read and the loop breaks
end_of_stream ==
    /\ monitor_pc = "readline"
    /\ monitor_pc' = "done"
    /\ UNCHANGED <<saved_for, pending>>
    /\ UNCHANGED <<touch_state, actions, action_count, current_screenshot,
                   recording, main_pc, now, sess, opened, script, last_line,
                   last_event>>

\* run: Ctrl+C in the interactive loop; the final screenshot is saved if its
\* capture succeeds
KeyboardInterrupt ==
    /\ main_pc = "interactive"
    /\ main_pc' = "stopped"
    /\ recording' = FALSE
    /\ \E final_screenshot \in BOOLEAN :
         action_count' = IF final_screenshot THEN action_count + 1
                         ELSE action_count
    /\ UNCHANGED <<saved_for, pending>>
    /\ UNCHANGED <<touch_state, actions, current_screenshot, monitor_pc, now,
                   sess, opened, script, last_line, last_event>>

\* time passes
Tick ==
    /\ now + Quantum <= MaxTime
    /\ now' = now + Quantum
    /\ UNCHANGED <<saved_for, pending>>
    /\ UNCHANGED <<touch_state, actions, action_count, current_screenshot,
                   recording, main_pc, monitor_pc, sess, opened, script,
                   last_line, last_event>>

ReadLine ==
    \E line \in Lines :
        monitor_gestures(line) /\ UNCHANGED <<last_line, last_event>>

Next ==
    \/ run
    \/ screenshot_monitor
    \/ ReadLine
    \/ Tick

Spec == Init /\ [][Next]_vars

----------------------------------------------------------------------------
(* Vocabulary of the claims *)

AllUnset(ts) == ts.start_x = None /\ ts.start_y = None /\ ts.start_time = None
AllSet(ts) == ts.start_x # None /\ ts.start_y # None /\ ts.start_time # None

\* the line's event makes process_event run the touch-end evaluation
IsTouchEnd(event) ==
    \/ IsRelease(event)
    \/ IsTrackingId(event) /\ event.value = Num(-1)

TouchEndLines ==
    {line \in Lines : Parsed[line] # None /\ IsTouchEnd(Parsed[line][1])}

\* this step is the loop's iteration on a line that ends the touch
TouchEndStep == \E line \in TouchEndLines : monitor_gestures(line)

----------------------------------------------------------------------------
(* C1: after any touch-end evaluation (a BTN_TOUCH release or a tracking   *)
(* id of -1), whatever it produced and whether or not the session was      *)
(* complete, start_x, start_y and start_time are all unset.                *)
C1_ClearedAfterTouchEnd ==
    [][TouchEndStep => AllUnset(touch_state')]_vars

----------------------------------------------------------------------------
(* C2: the start_x, start_y and start_time a touch-end evaluation          *)
(* classifies and reports with are the first X sample, the first Y sample  *)
(* and the press time of the session's own press, never values of an       *)
(* earlier session.  A touch-end evaluation that classifies is one that    *)
(* does not return early.                                                  *)
C2_OwnSamples ==
    [][(TouchEndStep /\ ~TouchEndReturnsEarly(touch_state))
         => /\ touch_state.start_x = sess.first_x
            /\ touch_state.start_y = sess.first_y
            /\ touch_state.start_time = sess.press_time]_vars

----------------------------------------------------------------------------
\* this step clears one of the three start fields
ClearsOne ==
    \/ touch_state.start_x # None /\ touch_state'.start_x = None
    \/ touch_state.start_y # None /\ touch_state'.start_y = None
    \/ touch_state.start_time # None /\ touch_state'.start_time = None

(* C3: while a session is active (from the session-opened notification to *)
(* the touch-end that closes it) start_x, start_y and start_time are all   *)
(* set, and a step that clears one of them clears all three.               *)
C3_AllOrNone ==
    [][/\ opened' => AllSet(touch_state')
       /\ ClearsOne => AllUnset(touch_state')]_vars

----------------------------------------------------------------------------
(* The fresh tracker fed press, X, Y, X, Y, release *)

ScriptDone == script.live /\ Len(script.seen) = 6

ScriptExample ==
    <<Num(1), Num(100), Num(200), Num(400), Num(200), Num(0)>>

Swipe(sx, sy, ex, ey, direction) ==
    [action_type |-> "swipe", start_x |-> sx, start_y |-> sy,
     end_x |-> ex, end_y |-> ey, direction |-> direction]

\* the gesture actions start at (sx, sy), for a swipe, and end at (ex, ey)
GesturesSpan(sx, sy, ex, ey) ==
    \A i \in DOMAIN GestureActions :
        LET a == GestureActions[i] IN
        IF a.action_type = "swipe"
        THEN a.start_x = sx /\ a.start_y = sy /\ a.end_x = ex /\ a.end_y = ey
        ELSE a.x = ex /\ a.y = ey

\* the rescaling of a raw sample to the screen
ScreenX(raw) == (raw * 1008) \div 1343
ScreenY(raw) == (raw * 2244) \div 2991

(* C4: fed to a fresh tracker, press, X=100, Y=200, X=400, Y=200, release  *)
(* yields exactly one gesture, a swipe right from (100,200) to (400,200);  *)
(* in general press, X, Y, X, Y, release yields exactly one gesture, from  *)
(* the first samples to the latest ones.                                   *)
C4_Original ==
    /\ (script.live /\ script.seen = ScriptExample)
         => GestureActions = <<Swipe(100, 200, 400, 200, "right")>>
    /\ ScriptDone
         => /\ Len(GestureActions) = 1
            /\ GesturesSpan(Val(script.seen[2]), Val(script.seen[3]),
                            Val(script.seen[4]), Val(script.seen[5]))

(* C4, amended: the samples are rescaled to the screen, x to              *)
(* floor(x * 1008 / 1343) and y to floor(y * 2244 / 2991).  The sequence   *)
(* yields exactly one gesture, a swipe right from (75,150) to (300,150);   *)
(* in general press, X, Y, X, Y, release yields at most one gesture, from  *)
(* the rescaled first samples to the rescaled latest ones.                 *)
C4_Rescaled ==
    /\ (script.live /\ script.seen = ScriptExample)
         => GestureActions = <<Swipe(75, 150, 300, 150, "right")>>
    /\ ScriptDone
         => /\ Len(GestureActions) <= 1
            /\ GesturesSpan(ScreenX(Val(script.seen[2])),
                            ScreenY(Val(script.seen[3])),
                            ScreenX(Val(script.seen[4])),
                            ScreenY(Val(script.seen[5])))

\* C4: the example sequence has been fed to the fresh tracker
C4_Witness == script.live /\ script.seen = ScriptExample

----------------------------------------------------------------------------
(* C9: a tracking-id line whose value field is ffffffff, read while        *)
(* start_x, start_y and start_time are set, runs the touch-end evaluation  *)
(* (the three start fields are cleared), whatever touching is and with no  *)
(* release seen, and leaves tracking_id at -1.                             *)
C9_LiftByTrackingId ==
    [][(monitor_gestures(LineTrackEnd) /\ AllSet(touch_state))
         => /\ AllUnset(touch_state')
            /\ touch_state'.tracking_id = Num(-1)]_vars

----------------------------------------------------------------------------
(* The value field of a line *)

\* the last 8 characters of the line's text: its value field
ValueField(line) ==
    SubSeq(Strip(line), Len(Strip(line)) - 7, Len(Strip(line)))

\* the signed 32-bit reading of 8 hex digits, in limbs
Signed32(digits) ==
    LET hi == HexInt(SubSeq(digits, 1, 4))
        lo == HexInt(SubSeq(digits, 5, 8))
    IN  IF hi >= 32768 THEN <<hi - 65536, lo>> ELSE <<hi, lo>>

(* C10: the parser decodes the 8-digit value field as a signed 32-bit      *)
(* quantity: v below 2^31 is v, v from 2^31 on is v - 2^32, so ffffffff is *)
(* -1.                                                                     *)
C10_SignedValue ==
    [][\A line \in Lines :
         (monitor_gestures(line) /\ Parsed[line] # None)
            => Parsed[line][1].value = Signed32(ValueField(line))]_vars

----------------------------------------------------------------------------
(* The classifier on its own: SpecGesture starts with a contact that is    *)
(* down and has sampled both coordinates (after press, X, Y and later X    *)
(* and Y samples), at every displacement and duration below, and reads the *)
(* release.  Every x in 0..1008 and y in 0..2244 is the rescaling of some  *)
(* raw sample.                                                             *)

StartXs == {0, 500}
StartYs == {700}
DXs == {-250, -200, -10, 0, 30, 80, 100, 200, 250}
DYs == {-280, -200, 0, 10, 40, 60, 100, 200, 280}
\* 0.05 s, 0.1 s, 0.3 s, 0.35 s, 1.0 s
Durations == {1, 2, 6, 7, 20}

InitGesture ==
    \E sx \in StartXs, sy \in StartYs, dx \in DXs, dy \in DYs,
       d \in Durations :
        /\ saved_for = << >>
        /\ pending = None
        /\ sx + dx >= 0
        /\ touch_state = [x |-> sx + dx, y |-> sy + dy,
                          tracking_id |-> Num(-1), touching |-> TRUE,
                          start_x |-> Some(sx), start_y |-> Some(sy),
                          start_time |-> Some(1)]
        /\ now = 1 + d
        /\ sess = [down |-> TRUE, press_time |-> Some(1),
                   first_x |-> Some(sx), first_y |-> Some(sy)]
        /\ actions = << >>
        /\ action_count = 0
        /\ current_screenshot \in BOOLEAN
        /\ recording = TRUE
        /\ main_pc = "interactive"
        /\ monitor_pc = "readline"
        /\ opened = TRUE
        /\ script = ScriptDead
        /\ last_line = << >>
        /\ last_event = None

ReleaseLines ==
    {line \in Lines : Parsed[line] # None /\ IsRelease(Parsed[line][1])}

Release ==
    \E line \in ReleaseLines :
        monitor_gestures(line) /\ UNCHANGED <<last_line, last_event>>

SpecGesture == InitGesture /\ [][Release]_vars

\* the click rule and the swipe rule of a session, under thresholds th
ClickRule(dx, dy, duration, th) ==
    /\ duration <= th.click_max_duration
    /\ dx * dx + dy * dy <= th.click_max_distance * th.click_max_distance

SwipeRule(dx, dy, th) ==
    dx * dx + dy * dy >= th.swipe_min_distance * th.swipe_min_distance

\* the session a TouchState with all three start fields holds at time t
Dx(ts) == ts.x - ts.start_x[1]
Dy(ts) == ts.y - ts.start_y[1]
Duration(ts, t) == t - ts.start_time[1]

\* the session of the contact, from its own first samples and press
SessComplete ==
    sess.first_x # None /\ sess.first_y # None /\ sess.press_time # None
SessDx == touch_state.x - sess.first_x[1]
SessDy == touch_state.y - sess.first_y[1]
SessDuration == now - sess.press_time[1]

\* the contact has been released
Ended == ~sess.down

ActionDx(a) == a.end_x - a.start_x
ActionDy(a) == a.end_y - a.start_y

----------------------------------------------------------------------------
(* C5: a completed session that is no click, is at least                   *)
(* swipe_min_distance long and has |dy| >= |dx| is a swipe down when       *)
(* dy > 0 and a swipe up otherwise; dx=-10, dy=280 is a swipe down.        *)
C5_Vertical ==
    (/\ Ended /\ SessComplete
     /\ ~ClickRule(SessDx, SessDy, SessDuration, Thresholds)
     /\ SwipeRule(SessDx, SessDy, Thresholds)
     /\ Abs(SessDy) >= Abs(SessDx))
      => \A i \in DOMAIN actions :
            actions[i].action_type = "swipe"
              => actions[i].direction = IF SessDy > 0 THEN "down" ELSE "up"

----------------------------------------------------------------------------
(* C6: for a completed session that is no click, is at least               *)
(* swipe_min_distance long and has |dx| > |dy|, the classifier returns     *)
(* SWIPE_RIGHT when dx > 0 and SWIPE_LEFT otherwise, and the swipe emitted *)
(* goes from (start_x, start_y) to the current (x, y); duration 0.05 s,    *)
(* dx=250, dy=10 is a swipe right.                                         *)
C6_Horizontal ==
    /\ (/\ AllSet(touch_state)
        /\ ~ClickRule(Dx(touch_state), Dy(touch_state),
                      Duration(touch_state, now), Thresholds)
        /\ SwipeRule(Dx(touch_state), Dy(touch_state), Thresholds)
        /\ Abs(Dx(touch_state)) > Abs(Dy(touch_state)))
         => detect_gesture(touch_state, now, Thresholds)
              = IF Dx(touch_state) > 0 THEN "SWIPE_RIGHT" ELSE "SWIPE_LEFT"
    /\ \A i \in DOMAIN actions :
         LET a == actions[i] IN
         a.action_type = "swipe"
           => /\ a.start_x = sess.first_x[1] /\ a.start_y = sess.first_y[1]
              /\ a.end_x = touch_state.x /\ a.end_y = touch_state.y
              /\ Abs(ActionDx(a)) > Abs(ActionDy(a))
                   => a.direction
                        = IF ActionDx(a) > 0 THEN "right" ELSE "left"

\* C6: the release 0.05 s after the press of a session with dx=250, dy=10
\* has emitted its swipe right
C6_Witness ==
    /\ Ended /\ SessDuration = 1
    /\ actions = <<Swipe(500, 700, 750, 710, "right")>>

----------------------------------------------------------------------------
\* the thresholds of __init__, and thresholds under which a session can
\* satisfy the click rule and the swipe rule at once
ThresholdConfigs ==
    {Thresholds,
     [click_max_duration |-> 6, click_max_distance |-> 300,
      swipe_min_distance |-> 200]}

(* C7: for a completed session the classifier returns CLICK exactly when   *)
(* duration <= click_max_duration and dx^2 + dy^2 <= click_max_distance^2, *)
(* both bounds included and before the swipe rule is looked at, whatever   *)
(* the thresholds; the click emitted is at the current (x, y); duration    *)
(* 0.1 s, dx=30, dy=40 is a click.                                         *)
C7_Click ==
    /\ AllSet(touch_state)
         => \A th \in ThresholdConfigs :
              (detect_gesture(touch_state, now, th) = "CLICK")
                <=> ClickRule(Dx(touch_state), Dy(touch_state),
                              Duration(touch_state, now), th)
    /\ \A i \in DOMAIN actions :
         LET a == actions[i] IN
         a.action_type = "click"
           => /\ a.x = touch_state.x /\ a.y = touch_state.y
              /\ ClickRule(SessDx, SessDy, SessDuration, Thresholds)

\* C7: the release 0.1 s after the press of a session with dx=30, dy=40
\* has emitted its click
C7_Witness ==
    /\ Ended /\ SessDuration = 2 /\ SessDx = 30 /\ SessDy = 40
    /\ actions = <<[action_type |-> "click", x |-> 530, y |-> 740]>>

----------------------------------------------------------------------------
(* C8: a completed session that satisfies neither the click rule nor the   *)
(* swipe rule (dx=80, dy=60, duration 1.0 s) produces no gesture and no    *)
(* action, and the tracker is back in the no-session state: start_x,       *)
(* start_y and start_time are cleared.                                     *)
C8_NoGesture ==
    (/\ Ended /\ SessComplete
     /\ ~ClickRule(SessDx, SessDy, SessDuration, Thresholds)
     /\ ~SwipeRule(SessDx, SessDy, Thresholds))
      => /\ actions = << >>
         /\ AllUnset(touch_state)

----------------------------------------------------------------------------
(* C11: a touch-end evaluation proceeds to classification exactly when     *)
(* start_x, start_y and start_time are all set, a start coordinate of 0    *)
(* included, and when one of them is unset it produces no gesture.         *)
C11_ProceedsWhenSet ==
    [][TouchEndStep
         => /\ ~TouchEndReturnsEarly(touch_state) <=> AllSet(touch_state)
            /\ ~AllSet(touch_state) => actions' = actions]_vars

----------------------------------------------------------------------------
(* The life of the stream loop: SpecLoop runs the recorder from its        *)
(* construction with the end of the stream and Ctrl+C as possible steps.   *)
(* Once recording is false run has terminated the getevent process (lines  *)
(* 765-766), so the pending readline() returns: the buffered line or the   *)
(* empty read.                                                             *)

NextLoop ==
    \/ run
    \/ ReadLine
    \/ end_of_stream
    \/ KeyboardInterrupt

SpecLoop ==
    /\ Init
    /\ [][NextLoop]_vars
    /\ WF_vars(~recording /\ (ReadLine \/ end_of_stream))

(* C12: the stream loop is over after the empty read; after recording is   *)
(* set to false it asks for no further line and comes to its end; and it   *)
(* stops for no other reason, whatever the lines are.                      *)
C12_LoopStops ==
    /\ [][/\ end_of_stream => monitor_pc' = "done"
          /\ (ReadLine /\ ~recording) => monitor_pc' = "done"
          /\ (ReadLine /\ recording) => monitor_pc' = "readline"
          /\ (monitor_pc = "readline" /\ monitor_pc' = "done")
               => (end_of_stream \/ ~recording)]_vars
    /\ (main_pc = "stopped") ~> (monitor_pc = "done")

\* C12: the loop is over after Ctrl+C, the gesture of the example recorded
C12_Witness ==
    /\ main_pc = "stopped" /\ ~recording /\ monitor_pc = "done"
    /\ Len(GestureActions) = 1 /\ ~sess.down
    /\ script.live /\ script.seen = ScriptExample

----------------------------------------------------------------------------
(* One line on its own: SpecEvent starts the loop with the tracker in a    *)
(* state a recording can have left it in (a contact down or lifted, no,    *)
(* one or both start coordinates sampled, a start coordinate of 0          *)
(* included) and feeds it lines, remembering the last one.                 *)

EventXs == {0, 75, 300}
EventYs == {0, 150}
EventStartXs == {None, Some(0), Some(75)}
EventStartYs == {None, Some(150)}
EventTimes == {1, 4, 10}

\* touching implies a press, which set start_time; a start coordinate is
\* sampled after a press; and a release clears the start fields unless it
\* returned early
EventTouchStates ==
    {ts \in [x : EventXs, y : EventYs,
             tracking_id : {Num(-1), <<65535, 65535>>},
             touching : BOOLEAN,
             start_x : EventStartXs, start_y : EventStartYs,
             start_time : {None, Some(1)}] :
        /\ (ts.touching \/ ts.start_x # None \/ ts.start_y # None)
              => ts.start_time # None
        /\ ~ts.touching => TouchEndReturnsEarly(ts)}

InitEvent ==
    /\ saved_for = << >>
    /\ pending = None
    /\ touch_state \in EventTouchStates
    /\ now \in EventTimes
    /\ sess = [down |-> touch_state.touching,
               press_time |-> touch_state.start_time,
               first_x |-> touch_state.start_x,
               first_y |-> touch_state.start_y]
    /\ opened = (touch_state.touching /\ touch_state.start_y # None)
    /\ actions = << >>
    /\ action_count = 0
    /\ current_screenshot \in BOOLEAN
    /\ recording = TRUE
    /\ main_pc = "interactive"
    /\ monitor_pc = "readline"
    /\ script = ScriptDead
    /\ last_line = << >>
    /\ last_event = None

Feed ==
    \E line \in Lines :
        /\ monitor_gestures(line)
        /\ last_line' = line
        /\ last_event' = Parsed[line]

SpecEvent == InitEvent /\ [][Feed]_vars

\* lines of neither format: no three hex fields, an upper-case hex digit
UnsupportedLines == {LineGarbage, LineUpperCase}

(* C13: a line of neither supported format is dropped: parse_line returns  *)
(* nothing, no field of TouchState changes, nothing is recorded, and the   *)
(* loop goes on to the next line.                                          *)
C13_Dropped ==
    [][(last_line' \in UnsupportedLines)
         => /\ last_event' = None
            /\ touch_state' = touch_state
            /\ actions' = actions /\ action_count' = action_count
            /\ monitor_pc' = "readline"]_vars

\* C13: the upper-case line has been dropped in the middle of a session
C13_Witness ==
    /\ last_line = LineUpperCase /\ last_event = None
    /\ touch_state.touching /\ AllSet(touch_state)
    /\ monitor_pc = "readline"

----------------------------------------------------------------------------
\* the gesture a touch-end evaluation produces in this state
Classified ==
    IF TouchEndReturnsEarly(touch_state) THEN NoGesture
    ELSE detect_gesture(touch_state, now, Thresholds)

\* the action type and direction a gesture is logged with
LoggedAs(gesture, a) ==
    IF gesture = "CLICK" THEN a.action_type = "click"
    ELSE /\ a.action_type = "swipe"
         /\ a.direction = Direction(gesture)

----------------------------------------------------------------------------
\* the session of ts and t moved by (ox, oy) on the screen and by ot in
\* time, with another tracking id and touching flag
Twin(ts, ox, oy, ot, tid, tch) ==
    [x |-> ts.x + ox, y |-> ts.y + oy, tracking_id |-> tid, touching |-> tch,
     start_x |-> Some(ts.start_x[1] + ox),
     start_y |-> Some(ts.start_y[1] + oy),
     start_time |-> Some(ts.start_time[1] + ot)]

\* the sessions with the dx, dy and duration of ts and t: where they are,
\* at the left edge (start_x = 0), at the top edge (start_y = 0), and moved
\* by (8, 5), three ticks later
TwinOffsets(ts) ==
    {o \in {0, 8, -ts.start_x[1]} \X {0, 5, -ts.start_y[1]} \X {0, 3} :
        ts.x + o[1] >= 0 /\ ts.y + o[2] >= 0}

(* C15: the classifier is a function of dx, dy, duration and the           *)
(* thresholds alone: sessions with the same dx, dy and duration get the    *)
(* same gesture type wherever they are on the screen, whatever their       *)
(* tracking_id and touching.                                               *)
C15_DisplacementOnly ==
    AllSet(touch_state)
      => \A o \in TwinOffsets(touch_state),
            tid \in {Num(-1), Num(0), Num(7)}, tch \in BOOLEAN,
            th \in ThresholdConfigs :
            detect_gesture(Twin(touch_state, o[1], o[2], o[3], tid, tch),
                           now + o[3], th)
              = detect_gesture(touch_state, now, th)

\* C15: a swipe right of 250 from (500, 700), whose twin starts at (0, 0)
C15_Witness ==
    /\ AllSet(touch_state)
    /\ touch_state.start_x = Some(500) /\ touch_state.x = 750
    /\ <<-500, -700, 3>> \in TwinOffsets(touch_state)
    /\ detect_gesture(touch_state, now, Thresholds) = "SWIPE_RIGHT"

----------------------------------------------------------------------------
(* The parser on its own: SpecParse hands parse_line one line, put         *)
(* together from a device name, three hex fields and a line end, each      *)
(* field given as its digits and the number they write, or a line of       *)
(* neither format.                                                         *)

ParseDevices == {<<"e", "v", "e", "n", "t", "3">>,
                 <<"e", "v", "e", "n", "t", "1">>,
                 <<"m", "o", "u", "s", "e", "_", "0">>}
ParseTypes == {<<<<"0", "0", "0", "3">>, 3>>, <<<<"0", "0", "0", "1">>, 1>>,
               <<<<"0", "0", "f", "f">>, 255>>}
ParseCodes == {<<<<"0", "0", "3", "5">>, 53>>, <<<<"0", "1", "4", "a">>, 330>>,
               <<<<"f", "f", "f", "f">>, 65535>>}
ParseValues == {<<<<"0", "0", "0", "0", "0", "1", "a", "5">>, <<0, 421>>>>,
                <<<<"0", "0", "0", "0", "0", "0", "0", "0">>, <<0, 0>>>>,
                <<<<"7", "f", "f", "f", "f", "f", "f", "f">>, <<32767, 65535>>>>,
                <<<<"0", "0", "0", "1", "0", "0", "0", "0">>, <<1, 0>>>>,
                <<<<"f", "f", "f", "f", "f", "f", "f", "f">>, <<65535, 65535>>>>}
ParseEnds == {<< >>, <<"\n">>, <<"\r", "\n">>}

Fields(ty, co, va, end) ==
    ty[1] \o <<" ">> \o co[1] \o <<" ">> \o va[1] \o end

WithDevice(dev, ty, co, va, end) ==
    <<"/", "d", "e", "v", "/", "i", "n", "p", "u", "t", "/">> \o dev
        \o <<":", " ">> \o Fields(ty, co, va, end)

\* lines of neither format: no hex fields, an upper-case digit, a type of 3
\* digits, a device name \w+ does not match, a prefix after a blank, and
\* fields that are not at the start of the line
NeitherLines ==
    {<<"g", "a", "r", "b", "a", "g", "e">>,
     <<"0", "0", "0", "3", " ", "0", "0", "3", "5", " ", "0", "0", "0", "0", "0", "1", "A", "5", "\n">>,
     <<"0", "0", "3", " ", "0", "0", "3", "5", " ", "0", "0", "0", "0", "0", "1", "a", "5", "\n">>,
     <<"/", "d", "e", "v", "/", "i", "n", "p", "u", "t", "/", "e", "v", "e", "n", "t", "-", "3", ":", " ", "0", "0", "0", "3", " ", "0", "0", "3", "5", " ", "0", "0", "0", "0", "0", "1", "a", "5", "\n">>,
     <<" ", "/", "d", "e", "v", "/", "i", "n", "p", "u", "t", "/", "e", "v", "e", "n", "t", "3", ":", " ", "0", "0", "0", "3", " ", "0", "0", "3", "5", " ", "0", "0", "0", "0", "0", "1", "a", "5", "\n">>,
     <<"a", "d", "d", " ", "0", "0", "0", "3", " ", "0", "0", "3", "5", " ", "0", "0", "0", "0", "0", "1", "a", "5", "\n">>}

ParseLines ==
    {WithDevice(dev, ty, co, va, end) :
        dev \in ParseDevices, ty \in ParseTypes, co \in ParseCodes,
        va \in ParseValues, end \in ParseEnds}
    \cup {Fields(ty, co, va, end) :
             ty \in ParseTypes, co \in ParseCodes, va \in ParseValues,
             end \in ParseEnds}
    \cup NeitherLines

Parse ==
    /\ last_line = << >>
    /\ \E line \in ParseLines :
         /\ last_line' = line
         /\ last_event' = parse_line(line)
    /\ UNCHANGED <<saved_for, pending>>
    /\ UNCHANGED <<touch_state, actions, action_count, current_screenshot,
                   recording, main_pc, monitor_pc, now, sess, opened, script>>

SpecParse == Init /\ [][Parse]_vars

\* the line of the example
LineExample ==
    <<"/", "d", "e", "v", "/", "i", "n", "p", "u", "t", "/", "e", "v", "e", "n", "t", "3", ":", " ", "0", "0", "0", "3", " ", "0", "0", "3", "5", " ", "0", "0", "0", "0", "0", "1", "a", "5">>

(* C16: a line "/dev/input/<dev>: <type> <code> <value>" parses to the     *)
(* event of device <dev> with the numbers the three hex fields write       *)
(* ("/dev/input/event3: 0003 0035 000001a5" to event3, 3, 0x35, 0x1a5);    *)
(* the three fields without a prefix parse to the same event of the        *)
(* placeholder device event1; a line of neither form, "garbage" among      *)
(* them, parses to nothing.                                                *)
C16_ParsedFields ==
    /\ \A ty \in ParseTypes, co \in ParseCodes, va \in ParseValues,
          end \in ParseEnds :
          /\ \A dev \in ParseDevices :
               last_line = WithDevice(dev, ty, co, va, end)
                 => last_event = Some([device |-> dev, type |-> ty[2],
                                       code |-> co[2], value |-> va[2]])
          /\ last_line = Fields(ty, co, va, end)
               => last_event = Some([device |-> <<"e", "v", "e", "n", "t", "1">>,
                                     type |-> ty[2], code |-> co[2],
                                     value |-> va[2]])
    /\ last_line = LineExample
         => last_event = Some([device |-> <<"e", "v", "e", "n", "t", "3">>,
                               type |-> 3, code |-> 53, value |-> <<0, 421>>])
    /\ last_line \in NeitherLines => last_event = None

\* C16: the line of the example has been parsed
C16_Witness ==
    /\ last_line = LineExample
    /\ last_event # None /\ last_event[1].device = <<"e", "v", "e", "n", "t", "3">>

----------------------------------------------------------------------------
\* the TouchState a touch-end evaluation run in this state leaves
AfterTouchEnd(shot) ==
    on_touch_end([touch_state |-> touch_state, actions |-> actions,
                  action_count |-> action_count, calls |-> << >>],
                 now, shot).touch_state

\* the event of the line handled by this step is of the category
LastEventIs(Category(_)) ==
    last_event' # None /\ Category(last_event'[1])

(* C17: a touch-end evaluation, proceeding or returning early, leaves      *)
(* tracking_id, touching, x and y as they are; each of the four is changed *)
(* only by an event of its own category (tracking id, press or release, X  *)
(* position, Y position), and so persists across sessions.                 *)
C17_Persist ==
    /\ [](\A shot \in BOOLEAN :
            /\ AfterTouchEnd(shot).tracking_id = touch_state.tracking_id
            /\ AfterTouchEnd(shot).touching = touch_state.touching
            /\ AfterTouchEnd(shot).x = touch_state.x
            /\ AfterTouchEnd(shot).y = touch_state.y)
    /\ [][/\ touch_state'.tracking_id # touch_state.tracking_id
               => LastEventIs(IsTrackingId)
          /\ touch_state'.touching # touch_state.touching
               => LastEventIs(IsTouchKey)
          /\ touch_state'.x # touch_state.x => LastEventIs(IsX)
          /\ touch_state'.y # touch_state.y => LastEventIs(IsY)]_vars

\* C17: a release has ended a session with its swipe, and x, y and the
\* tracking id of the session are still there
C17_Witness ==
    /\ last_event # None /\ IsRelease(last_event[1])
    /\ Len(actions) = 1 /\ actions[1].action_type = "swipe"
    /\ AllUnset(touch_state) /\ ~touch_state.touching
    /\ touch_state.x = 300 /\ touch_state.y = 150
    /\ touch_state.tracking_id = <<65535, 65535>>

----------------------------------------------------------------------------
\* the raw sample of the position event handled by this step
LastRaw == Val(last_event'[1].value)

(* C18: an X (resp. Y) position event always updates x (resp. y), to the   *)
(* rescaled sample; it writes start_x (resp. start_y), with that value,    *)
(* only when touching is true and the start field is unset, so a position  *)
(* event received while not touching sets no start field and a start field *)
(* that is set is not changed by a later position sample.                  *)
C18_StartOnce ==
    [][/\ LastEventIs(IsX)
           => /\ touch_state'.x = ScreenX(LastRaw)
              /\ touch_state'.start_x
                   = IF touch_state.touching /\ touch_state.start_x = None
                     THEN Some(ScreenX(LastRaw))
                     ELSE touch_state.start_x
              /\ touch_state'.start_y = touch_state.start_y
       /\ LastEventIs(IsY)
           => /\ touch_state'.y = ScreenY(LastRaw)
              /\ touch_state'.start_y
                   = IF touch_state.touching /\ touch_state.start_y = None
                     THEN Some(ScreenY(LastRaw))
                     ELSE touch_state.start_y
              /\ touch_state'.start_x = touch_state.start_x]_vars

\* C18: an X sample of 400 has moved x to 300 and left the start_x of the
\* contact, 75, as it was
C18_Witness ==
    /\ last_event # None /\ IsX(last_event[1])
    /\ touch_state.touching
    /\ touch_state.start_x = Some(75) /\ touch_state.x = 300

----------------------------------------------------------------------------
\* this step is an iteration of the loop that calls on_touch_start
TouchStartStep ==
    \E line \in Lines :
        /\ monitor_gestures(line)
        /\ \E i \in DOMAIN AfterLine(line).calls :
             AfterLine(line).calls[i] = "on_touch_start"

(* C19: on_touch_start is called at most once between a press and the     *)
(* touch-end that closes the session, and when it is called touching is    *)
(* true and start_x, start_y and start_time are all set, whatever the      *)
(* order of the X and the Y events.                                        *)
C19_OpenedOnce ==
    [][TouchStartStep
         => /\ ~opened
            /\ touch_state'.touching
            /\ AllSet(touch_state')]_vars

----------------------------------------------------------------------------
PressLines ==
    {line \in Lines : Parsed[line] # None /\ IsPress(Parsed[line][1])}

\* this step is the loop's iteration on a press, on a release
PressStep == \E line \in PressLines : monitor_gestures(line)
ReleaseStep == \E line \in ReleaseLines : monitor_gestures(line)

\* the TouchState with the touching flag down
Lifted == [touch_state EXCEPT !.touching = FALSE]

(* C20: a BTN_TOUCH event sets touching to (value # 0).  A press sets      *)
(* start_time to the clock reading and runs no touch-end evaluation; a     *)
(* release runs the touch-end evaluation with touching already false; so   *)
(* the duration a release classifies with runs from the most recent press. *)
C20_PressRelease ==
    [][/\ PressStep
           => /\ touch_state'
                   = [touch_state EXCEPT !.touching = TRUE,
                                         !.start_time = Some(now)]
              /\ actions' = actions
              /\ \A line \in PressLines : AfterLine(line).calls = << >>
       /\ ReleaseStep
           => /\ ~touch_state'.touching
              /\ \A line \in ReleaseLines :
                   AfterLine(line).calls = <<"on_touch_end">>
              /\ \A shot \in BOOLEAN :
                   touch_state'
                     = on_touch_end([touch_state |-> Lifted,
                                     actions |-> actions,
                                     action_count |-> action_count,
                                     calls |-> << >>], now, shot).touch_state
              /\ ~TouchEndReturnsEarly(touch_state)
                   => /\ touch_state.start_time = sess.press_time
                      /\ Classified
                           = detect_gesture(
                               [touch_state EXCEPT
                                  !.start_time = sess.press_time],
                               now, Thresholds)]_vars

\* C20: a contact pressed at tick 7 has been released at tick 7 and is a
\* click
C20_Witness ==
    /\ ~sess.down /\ sess.press_time = Some(7) /\ now = 7
    /\ ~touch_state.touching /\ AllUnset(touch_state)
    /\ Len(GestureActions) = 1
    /\ actions[Len(actions)].action_type = "click"

----------------------------------------------------------------------------
\* this step handles the second of two lift signals that follow each other:
\* a release after the tracking id ffffffff, or that tracking id after a
\* release
SecondLiftStep ==
    \/ last_line = LineTrackEnd /\ last_line' \in ReleaseLines
    \/ last_line \in ReleaseLines /\ last_line' = LineTrackEnd

(* C21: when the lift of a contact is signalled by a tracking id of -1 and *)
(* by a release, in either order and with nothing between them, the second *)
(* signal finds start_x, start_y and start_time cleared and records        *)
(* nothing, so the contact gives at most one gesture.                      *)
C21_SecondLiftSilent ==
    [][SecondLiftStep
         => /\ AllUnset(touch_state)
            /\ actions' = actions]_vars

----------------------------------------------------------------------------
(* The rescaling on its own: SpecScale starts after a press, or with no    *)
(* contact, and hands process_event one position event, of any raw sample  *)
(* the touch device reports (0..MAX_RAW_X, 0..MAX_RAW_Y).                  *)

PositionEvents ==
    {EventData(DefaultDevice, EV_ABS, ABS_MT_POSITION_X, Num(raw)) :
        raw \in 0..MAX_RAW_X}
    \cup {EventData(DefaultDevice, EV_ABS, ABS_MT_POSITION_Y, Num(raw)) :
             raw \in 0..MAX_RAW_Y}

InitScale ==
    /\ saved_for = << >>
    /\ pending = None
    /\ \E touching \in BOOLEAN :
         /\ touch_state
              = [TouchState EXCEPT
                   !.touching = touching,
                   !.start_time = IF touching THEN Some(1) ELSE None]
         /\ sess = [NoContact EXCEPT
                      !.down = touching,
                      !.press_time = IF touching THEN Some(1) ELSE None]
    /\ now = 1
    /\ opened = FALSE
    /\ actions = << >>
    /\ action_count = 0
    /\ current_screenshot = FALSE
    /\ recording = TRUE
    /\ main_pc = "interactive"
    /\ monitor_pc = "readline"
    /\ script = ScriptDead
    /\ last_line = << >>
    /\ last_event = None

\* process_event on a position event
Sample ==
    /\ last_event = None
    /\ \E event \in PositionEvents :
         LET r1 == process_event(
                     [touch_state |-> touch_state, actions |-> actions,
                      action_count |-> action_count, calls |-> << >>],
                     event, now, current_screenshot)
         IN  /\ touch_state' = r1.touch_state
             /\ actions' = r1.actions
             /\ action_count' = r1.action_count
             /\ sess' = SessAfter(sess, Some(event), r1.touch_state, now)
             /\ opened' = OpenedAfter(opened, r1.calls)
             /\ last_event' = Some(event)
    /\ UNCHANGED <<saved_for, pending>>
    /\ UNCHANGED <<current_screenshot, recording, main_pc, monitor_pc, now,
                   script, last_line>>

SpecScale == InitScale /\ [][Sample]_vars

\* the raw sample of the position event handled
Raw == Val(last_event[1].value)

(* C22: the running coordinate and the start coordinate get the same       *)
(* rescaling: after an X (resp. Y) sample, x (resp. y) is                  *)
(* floor(raw * 1008 / 1343) (resp. floor(raw * 2244 / 2991)), a start_x    *)
(* (resp. start_y) set by the sample equals it, and for raw in 0..1343     *)
(* (resp. 0..2991) it lies in 0..1008 (resp. 0..2244) and does not         *)
(* decrease when raw grows.                                                *)
C22_Rescaling ==
    /\ (last_event # None /\ IsX(last_event[1]))
         => /\ touch_state.x = ScreenX(Raw)
            /\ touch_state.start_x
                 = IF touch_state.touching THEN Some(touch_state.x) ELSE None
            /\ touch_state.x \in 0..1008
            /\ Raw = 1343 => touch_state.x = 1008
            /\ Raw < 1343
                 => touch_state.x <= scale_coordinate(Raw + 1, 0)[1]
    /\ (last_event # None /\ IsY(last_event[1]))
         => /\ touch_state.y = ScreenY(Raw)
            /\ touch_state.start_y
                 = IF touch_state.touching THEN Some(touch_state.y) ELSE None
            /\ touch_state.y \in 0..2244
            /\ Raw = 2991 => touch_state.y = 2244
            /\ Raw < 2991
                 => touch_state.y <= scale_coordinate(0, Raw + 1)[2]

\* C22: the X sample 1342 of a contact has set x and start_x to 1007
C22_Witness ==
    /\ last_event # None /\ IsX(last_event[1]) /\ Raw = 1342
    /\ touch_state.touching
    /\ touch_state.x = 1007 /\ touch_state.start_x = Some(1007)

----------------------------------------------------------------------------
(* The threads step by step: SpecThreads runs the main thread (run:        *)
(* recording starts, launch_app, then inject_text on every input), the     *)
(* screenshot thread and the gesture-monitor thread, and interleaves them  *)
(* at each access to what they share.  save_action_screenshot holds        *)
(* screenshot_lock and is one step; the append to actions that follows it  *)
(* is another.                                                             *)

\* the screenshots and log entries after which no text is injected
MaxShots == 3

\* the lines of one contact
ThreadLines == {LinePress, LineX100, LineX400, LineY200, LineRelease}

InputTextAction == [action_type |-> "input_text"]

\* save_action_screenshot, on the record of the files written
SavedFor(action) ==
    IF current_screenshot THEN Append(saved_for, action) ELSE saved_for

\* run: self.recording = True, the screenshot thread is started
start_recording ==
    /\ main_pc = "start"
    /\ main_pc' = "launch_app"
    /\ recording' = TRUE
    /\ UNCHANGED <<touch_state, actions, action_count, current_screenshot,
                   monitor_pc, now, sess, opened, script, last_line,
                   last_event, pending, saved_for>>

\* launch_app: the app starts, save_action_screenshot()
launch_app_save ==
    /\ main_pc = "launch_app"
    /\ main_pc' = "launch_app_append"
    /\ action_count' = save_action_screenshot(action_count,
                                              current_screenshot)
    /\ saved_for' = SavedFor(OpenAppAction)
    /\ UNCHANGED <<touch_state, actions, current_screenshot, recording,
                   monitor_pc, now, sess, opened, script, last_line,
                   last_event, pending>>

\* launch_app: self.actions.append(action); run: the monitor thread is
\* started
launch_app_append ==
    /\ main_pc = "launch_app_append"
    /\ main_pc' = "interactive"
    /\ actions' = Append(actions, OpenAppAction)
    /\ monitor_pc' = while_recording(recording)
    /\ UNCHANGED <<touch_state, action_count, current_screenshot, recording,
                   now, sess, opened, script, last_line, last_event,
                   pending, saved_for>>

\* launch_app: the app does not start (except Exception); run: the monitor
\* thread is started
launch_app_fails ==
    /\ main_pc = "launch_app"
    /\ main_pc' = "interactive"
    /\ monitor_pc' = while_recording(recording)
    /\ UNCHANGED <<touch_state, actions, action_count, current_screenshot,
                   recording, now, sess, opened, script, last_line,
                   last_event, pending, saved_for>>

\* run: text = input(); inject_text: save_action_screenshot()
inject_text_save ==
    /\ main_pc = "interactive"
    /\ recording
    /\ action_count < MaxShots
    /\ Len(actions) < MaxShots
    /\ main_pc' = "inject_text"
    /\ action_count' = save_action_screenshot(action_count,
                                              current_screenshot)
    /\ saved_for' = SavedFor(InputTextAction)
    /\ UNCHANGED <<touch_state, actions, current_screenshot, recording,
                   monitor_pc, now, sess, opened, script, last_line,
                   last_event, pending>>

\* an inject_text that clears the tracker once the text is typed
inject_text_input_clears ==
    /\ main_pc = "inject_text"
    /\ main_pc' = "interactive"
    /\ \E returncode \in {0, 1} :
         actions' = IF returncode = 0 THEN Append(actions, InputTextAction)
                    ELSE actions
    /\ touch_state' = [touch_state EXCEPT !.start_x = None,
                                          !.start_y = None,
                                          !.start_time = None]
    /\ UNCHANGED <<action_count, current_screenshot, recording,
                   monitor_pc, now, sess, opened, script, last_line,
                   last_event, pending, saved_for>>

\* inject_text: adb shell input text; the action is appended if the
\* command returns 0
inject_text_input ==
    /\ main_pc = "inject_text"
    /\ main_pc' = "interactive"
    /\ \E returncode \in {0, 1} :
         actions' = IF returncode = 0 THEN Append(actions, InputTextAction)
                    ELSE actions
    /\ UNCHANGED <<touch_state, action_count, current_screenshot, recording,
                   monitor_pc, now, sess, opened, script, last_line,
                   last_event, pending, saved_for>>

\* the tracker on_touch_end holds while it saves and appends: its reset
\* (the last three assignments) is still to come
BeforeReset(ts0, ts1) ==
    [ts1 EXCEPT !.start_x = ts0.start_x, !.start_y = ts0.start_y,
                !.start_time = ts0.start_time]

\* monitor_gestures: one line read, parsed and handed to process_event, up
\* to the return of process_event, or to the call of save_action_screenshot
\* in on_touch_end if a gesture was detected
monitor_read ==
    /\ monitor_pc = "readline"
    /\ Len(GestureActions) < MaxGestures
    /\ \E line \in ThreadLines :
         LET r1 == AfterLine(line)
             built == Len(r1.actions) > Len(actions)
         IN  /\ touch_state' = IF built
                               THEN BeforeReset(touch_state, r1.touch_state)
                               ELSE r1.touch_state
             /\ pending' = IF built THEN Some(r1.actions[Len(r1.actions)])
                           ELSE None
             /\ monitor_pc' = IF built THEN "touch_end_save"
                              ELSE while_recording(recording)
             /\ sess' = SessAfter(sess, Parsed[line], r1.touch_state, now)
             /\ opened' = OpenedAfter(opened, r1.calls)
             /\ script' = ScriptAfter(script, Parsed[line])
    /\ UNCHANGED <<actions, action_count, current_screenshot, recording,
                   main_pc, now, last_line, last_event, saved_for>>

\* on_touch_end: self.save_action_screenshot(action)
touch_end_save ==
    /\ monitor_pc = "touch_end_save"
    /\ monitor_pc' = "touch_end_append"
    /\ action_count' = save_action_screenshot(action_count,
                                              current_screenshot)
    /\ saved_for' = SavedFor(pending[1])
    /\ UNCHANGED <<touch_state, actions, current_screenshot, recording,
                   main_pc, now, sess, opened, script, last_line,
                   last_event, pending>>

\* on_touch_end: self.actions.append(action)
touch_end_append ==
    /\ monitor_pc = "touch_end_append"
    /\ monitor_pc' = "touch_end_reset"
    /\ actions' = Append(actions, pending[1])
    /\ UNCHANGED <<touch_state, action_count, current_screenshot, recording,
                   main_pc, now, sess, opened, script, last_line,
                   last_event, pending, saved_for>>

\* on_touch_end: the three start fields are reset; back to the loop
touch_end_reset ==
    /\ monitor_pc = "touch_end_reset"
    /\ monitor_pc' = while_recording(recording)
    /\ touch_state' = [touch_state EXCEPT !.start_x = None,
                                          !.start_y = None,
                                          !.start_time = None]
    /\ pending' = None
    /\ UNCHANGED <<actions, action_count, current_screenshot, recording,
                   main_pc, now, sess, opened, script, last_line,
                   last_event, saved_for>>

MainThread ==
    \/ start_recording
    \/ launch_app_save
    \/ launch_app_append
    \/ launch_app_fails
    \/ inject_text_save
    \/ inject_text_input

MonitorThread ==
    \/ monitor_read
    \/ touch_end_save
    \/ touch_end_append
    \/ touch_end_reset

NextThreads ==
    \/ start_recording
    \/ launch_app_save
    \/ launch_app_append
    \/ launch_app_fails
    \/ inject_text_save
    \/ inject_text_input
    \/ screenshot_monitor
    \/ monitor_read
    \/ touch_end_save
    \/ touch_end_append
    \/ touch_end_reset

SpecThreads == Init /\ [][NextThreads]_vars

\* the action on_touch_end builds from the tracker ts at time t
BuiltFrom(ts, t) ==
    LET gesture == detect_gesture(ts, t, Thresholds)
    IN  IF gesture = "CLICK" THEN ClickAction(ts)
        ELSE SwipeAction(ts, gesture)

(* C23: touch_state belongs to the gesture-monitor thread: in every        *)
(* interleaving with the screenshot thread and the main thread, a step     *)
(* that changes touch_state is a step of the monitor thread; the monitor   *)
(* reads the next line only when the touch-end of the previous one is      *)
(* over; and while on_touch_end saves and appends its action, the tracker  *)
(* is still the one the action was built from.                             *)
C23_MonitorOwnsTouchState ==
    /\ [][touch_state' # touch_state => MonitorThread]_vars
    /\ [](monitor_pc \in {"idle", "readline", "done"} <=> pending = None)
    /\ [](pending # None
            => /\ ~TouchEndReturnsEarly(touch_state)
               /\ detect_gesture(touch_state, now, Thresholds) # NoGesture
               /\ pending[1] = BuiltFrom(touch_state, now))

\* C23: the monitor thread is between the save and the append of a gesture
\* while the main thread is inside inject_text and a screenshot is there
C23_Witness ==
    /\ monitor_pc = "touch_end_append"
    /\ pending # None
    /\ main_pc = "inject_text"
    /\ current_screenshot

\* the main thread and the monitor thread are both between operations
BetweenOperations ==
    /\ main_pc = "interactive"
    /\ monitor_pc \in {"readline", "done"}

(* C24: the action log and the saved screenshots stay aligned: whenever    *)
(* the main thread and the monitor thread are both between operations,     *)
(* action_count equals len(actions), and for every i screenshot_<i>.png    *)
(* was saved for the action stored at actions[i].                          *)
C24_Aligned ==
    BetweenOperations
        => /\ action_count = Len(actions)
           /\ \A i \in 1..Len(actions) :
                i <= Len(saved_for) /\ saved_for[i] = actions[i]

====
